---- MODULE Spec2Model ----
(***************************************************************************)
(* Model of the asynchronous job subsystem of the ESPHome CLI add-on       *)
(* (app/main.py): the in-memory job store, the temporary configuration     *)
(* files of the workspace, the submit handlers and the background thread   *)
(* that runs the external tool for each job.                               *)
(*                                                                         *)
(* Python values are represented as follows:                               *)
(*   Optional[T]      <<>> for None, <<v>> for a value v                   *)
(*   str              a TLA+ string, "+" is \o                             *)
(*   dict[str, str]   the sequence of its <<key, value>> items in          *)
(*                    insertion order                                      *)
(*   Path             the string of the path                               *)
(*   the job dict     a function from its keys to values ("returncode" is  *)
(*                    a key only once it has been assigned)                *)
(***************************************************************************)
EXTENDS Naturals, Integers, Sequences, FiniteSets, TLC

VARIABLES
    jobs,       \* main.py:37  job_id -> job dict
    files,      \* the configuration files that exist under WORKSPACE
    requests,   \* the submissions handled so far, with their HTTP outcome
    threads     \* the background threads started so far (main.py:332), each
                \* with its arguments, its position (pc) and what it has
                \* done: the outcome of subprocess.run (proc), the number of
                \* calls of it (runs), the results of unlink (unlinked)

VARIABLES
    validations, \* the calls of /api/validate handled so far, with their outcome
    lookup,      \* the status lookup whose response is being encoded, if any
    call         \* a call of build_esphome_args: its arguments and its result

vars == <<jobs, files, requests, threads, validations, lookup, call>>

\* what the submit routes and the background threads leave alone
others == <<validations, lookup, call>>

-----------------------------------------------------------------------------
(* Bounds of the model *)

\* number of requests that draw a job id (submissions and validations)
\* handled in one behaviour
MaxJobs == 2

-----------------------------------------------------------------------------
(* Python helpers *)

None == <<>>
Some(v) == <<v>>

\* truth value of an Optional[str], an Optional[int], an Optional[dict]
TruthyStr(opt) == opt # None /\ opt[1] # ""
TruthyInt(opt) == opt # None /\ opt[1] # 0
TruthyDict(opt) == opt # None /\ opt[1] # <<>>

\* StrOr with the operands tried in the wrong order
StrOr_second(a, b) == IF b # "" THEN b ELSE a

\* a or b or c, on strings
StrOr(a, b) == IF a # "" THEN a ELSE b

-----------------------------------------------------------------------------
(* Constants of the program *)

WORKSPACE == "/data/workspace"

ALLOWED_COMMANDS == {"config", "compile", "upload", "run", "clean"}

\* the subcommands the four submit routes pass to build_esphome_args
SubmitCommands == {"compile", "upload", "run", "clean"}

\* a subcommand of the external tool that is not on the allow-list
OtherCommands == {"logs"}

\* files outside the workspace that exist on the host, with their directory
ExternalFiles == {"/config/secrets.yaml"}

\* Path.parent of the paths that can be files
Parent(path) == IF path \in ExternalFiles THEN "/config" ELSE WORKSPACE

\* Path.is_file
is_file(fs, path) == path \in fs \cup ExternalFiles

TimeoutMessage == "Command timed out (600s)"

\* str(e) of the exceptions the environment raises
LaunchErrorMessage == "[Errno 2] No such file or directory: 'esphome'"
IOErrorMessage == "[Errno 28] No space left on device"

-----------------------------------------------------------------------------
(* Identifiers and paths *)

\* the values uuid.uuid4() can return, as the strings of job ids
JobIds == {"id" \o ToString(n) : n \in 1..MaxJobs}

\* uuid4 of the k-th call when identifiers never repeat
FreshId(k) == "id" \o ToString(k)

\* write_temp_yaml: path = ws / f"config_{job_id}.yaml"
ConfigPath(job_id) == WORKSPACE \o "/config_" \o job_id \o ".yaml"

\* outcomes of path.write_text: written, or OSError raised before the file
\* was created, or OSError raised after it was created
WriteOutcomes == {"ok", "OSError", "OSError_partial"}

write_temp_yaml(fs, job_id, outcome) ==
    [ files  |-> IF outcome = "OSError" THEN fs ELSE fs \cup {ConfigPath(job_id)},
      raised |-> IF outcome = "ok" THEN None ELSE Some(IOErrorMessage),
      path   |-> ConfigPath(job_id) ]

-----------------------------------------------------------------------------
(* Argument Builder *)

RECURSIVE SubstitutionArgs(_)
SubstitutionArgs(items) ==
    IF items = <<>> THEN <<>>
    ELSE <<"--substitution", Head(items)[1], Head(items)[2]>>
            \o SubstitutionArgs(Tail(items))

\* build_esphome_args without the check of the allow-list
build_esphome_args_unchecked(subcommand, config_path, device, upload_speed, only_generate, no_logs, substitutions) ==
    [ raised |-> None,
      args |->
         <<"esphome", subcommand, config_path>>
         \o (IF subcommand = "compile" /\ only_generate
             THEN <<"--only-generate">> ELSE <<>>)
         \o (IF TruthyStr(device) /\ subcommand \in {"upload", "run"}
             THEN <<"--device", device[1]>> ELSE <<>>)
         \o (IF TruthyInt(upload_speed) /\ subcommand \in {"upload", "run"}
             THEN <<"--upload-speed", ToString(upload_speed[1])>> ELSE <<>>)
         \o (IF no_logs /\ subcommand = "run"
             THEN <<"--no-logs">> ELSE <<>>)
         \o (IF TruthyDict(substitutions)
             THEN SubstitutionArgs(substitutions[1]) ELSE <<>>) ]

\* build_esphome_args with the document path repeated as the last argument,
\* where run_esphome_sync looks for it
build_esphome_args_path_last(subcommand, config_path, device, upload_speed, only_generate, no_logs, substitutions) ==
    IF subcommand \notin ALLOWED_COMMANDS
    THEN [ raised |-> Some("Command not allowed: " \o subcommand), args |-> <<>> ]
    ELSE [ raised |-> None,
           args |->
              build_esphome_args_unchecked(subcommand, config_path, device,
                    upload_speed, only_generate, no_logs, substitutions).args
              \o <<config_path>> ]

\* build_esphome_args that adds --device for every subcommand
build_esphome_args_device_any(subcommand, config_path, device, upload_speed, only_generate, no_logs, substitutions) ==
    IF subcommand \notin ALLOWED_COMMANDS
    THEN [ raised |-> Some("Command not allowed: " \o subcommand), args |-> <<>> ]
    ELSE [ raised |-> None,
           args |->
              <<"esphome", subcommand, config_path>>
              \o (IF subcommand = "compile" /\ only_generate
                  THEN <<"--only-generate">> ELSE <<>>)
              \o (IF TruthyStr(device)
                  THEN <<"--device", device[1]>> ELSE <<>>)
              \o (IF TruthyInt(upload_speed) /\ subcommand \in {"upload", "run"}
                  THEN <<"--upload-speed", ToString(upload_speed[1])>> ELSE <<>>)
              \o (IF no_logs /\ subcommand = "run"
                  THEN <<"--no-logs">> ELSE <<>>)
              \o (IF TruthyDict(substitutions)
                  THEN SubstitutionArgs(substitutions[1]) ELSE <<>>) ]

build_esphome_args(subcommand, config_path, device, upload_speed, only_generate, no_logs, substitutions) ==
    IF subcommand \notin ALLOWED_COMMANDS
    THEN [ raised |-> Some("Command not allowed: " \o subcommand), args |-> <<>> ]
    ELSE [ raised |-> None,
           args |->
              <<"esphome", subcommand, config_path>>
              \o (IF subcommand = "compile" /\ only_generate
                  THEN <<"--only-generate">> ELSE <<>>)
              \o (IF TruthyStr(device) /\ subcommand \in {"upload", "run"}
                  THEN <<"--device", device[1]>> ELSE <<>>)
              \o (IF TruthyInt(upload_speed) /\ subcommand \in {"upload", "run"}
                  THEN <<"--upload-speed", ToString(upload_speed[1])>> ELSE <<>>)
              \o (IF no_logs /\ subcommand = "run"
                  THEN <<"--no-logs">> ELSE <<>>)
              \o (IF TruthyDict(substitutions)
                  THEN SubstitutionArgs(substitutions[1]) ELSE <<>>) ]

-----------------------------------------------------------------------------
(* Requests *)

\* the request bodies of the model; a route reads only the fields of its
\* own request class (CompileRequest, UploadRequest, RunRequest, CleanRequest)
Body(yaml, device, upload_speed, only_generate, no_logs, substitutions) ==
    [ yaml |-> yaml, device |-> device, upload_speed |-> upload_speed,
      only_generate |-> only_generate, no_logs |-> no_logs,
      substitutions |-> substitutions ]

Bodies(subcommand) ==
    CASE subcommand = "compile" ->
            { Body("esphome:", None, None, TRUE, FALSE,
                   Some(<< <<"secrets", "/config/secrets.yaml">> >>)) }
      [] subcommand = "upload" ->
            { Body("esphome:", Some("192.168.1.10"), Some(115200), FALSE, FALSE,
                   Some(<< <<"name", "node">> >>)) }
      [] subcommand = "run" ->
            { Body("esphome:", Some("/dev/ttyUSB0"), None, FALSE, TRUE, None) }
      [] OTHER ->
            { Body("esphome:", None, None, FALSE, FALSE, None) }

\* the call of build_esphome_args each route makes (main.py:318, 340, 363, 387)
BuildFor(subcommand, config_path, body) ==
    CASE subcommand = "compile" ->
            build_esphome_args("compile", config_path, None, None,
                               body.only_generate, FALSE, body.substitutions)
      [] subcommand = "upload" ->
            build_esphome_args("upload", config_path, body.device,
                               body.upload_speed, FALSE, FALSE, body.substitutions)
      [] subcommand = "run" ->
            build_esphome_args("run", config_path, body.device,
                               body.upload_speed, FALSE, body.no_logs,
                               body.substitutions)
      [] OTHER ->
            build_esphome_args(subcommand, config_path, None, None,
                               FALSE, FALSE, None)

-----------------------------------------------------------------------------
(* Job Registry *)

\* NewJob with a status that is not one of the four
NewJob_queued(job_type, created_at) ==
    [ type |-> job_type, status |-> "queued", logs |-> "", error |-> None,
      created_at |-> created_at ]

\* the dict a submit route stores (main.py:325-331); created_at is the time
\* of the event loop, here the number of the request
NewJob(job_type, created_at) ==
    [ type |-> job_type, status |-> "pending", logs |-> "", error |-> None,
      created_at |-> created_at ]

\* jobs[job_id] = record
Store(js, job_id, record) ==
    [ j \in DOMAIN js \cup {job_id} |-> IF j = job_id THEN record ELSE js[j] ]

\* jobs[job_id][key] = value
SetKey(record, key, value) ==
    [ f \in DOMAIN record \cup {key} |-> IF f = key THEN value ELSE record[f] ]

Terminal == {"success", "failed"}

-----------------------------------------------------------------------------
(* Initial state: an empty job store and an empty workspace *)

Init ==
    /\ jobs = <<>>
    /\ files = {}
    /\ requests = <<>>
    /\ threads = <<>>
    /\ validations = <<>>
    /\ lookup = None
    /\ call = None

\* the number of uuid.uuid4() calls made so far
Calls == Len(requests) + Len(validations)

-----------------------------------------------------------------------------
(* Submit routes: api_compile, api_upload, api_run, api_clean *)

submit(subcommand, body, job_id, written) ==
    LET w == write_temp_yaml(files, job_id, written)
        b == BuildFor(subcommand, w.path, body)
        request == [ subcommand |-> subcommand, body |-> body, job_id |-> job_id ]
    IN  /\ Calls < MaxJobs
        /\ files' = w.files
        /\ IF w.raised # None
           THEN /\ requests' = Append(requests,
                        request @@ [ code |-> 500, raised |-> "OSError",
                                     detail |-> w.raised[1] ])
                /\ UNCHANGED <<jobs, threads>>
           ELSE IF b.raised # None
           THEN /\ requests' = Append(requests,
                        request @@ [ code |-> 500, raised |-> "ValueError",
                                     detail |-> b.raised[1] ])
                /\ UNCHANGED <<jobs, threads>>
           ELSE /\ jobs' = Store(jobs, job_id,
                                 NewJob(subcommand, Len(requests) + 1))
                /\ threads' = Append(threads,
                        [ job_id |-> job_id, job_type |-> subcommand,
                          args |-> b.args, config_path |-> w.path,
                          pc |-> "start", cwd |-> None, runs |-> 0,
                          proc |-> None, raised |-> None,
                          unlinked |-> <<>> ])
                /\ requests' = Append(requests,
                        request @@ [ code |-> 200, raised |-> "",
                                     detail |-> "" ])

ApiSubmit ==
    \E subcommand \in SubmitCommands :
      \E body \in Bodies(subcommand), written \in WriteOutcomes :
        submit(subcommand, body, FreshId(Calls + 1), written)

-----------------------------------------------------------------------------
(* Process Executor: what subprocess.run can do *)

Exited(returncode, stdout, stderr) ==
    [ kind |-> "exited", returncode |-> returncode, stdout |-> stdout,
      stderr |-> stderr, message |-> "" ]

TimeoutExpired == [ kind |-> "timeout", returncode |-> 0, stdout |-> "",
                    stderr |-> "", message |-> "" ]

Raised(message) == [ kind |-> "raised", returncode |-> 0, stdout |-> "",
                     stderr |-> "", message |-> message ]

ProcessOutcomes ==
    { Exited(0, "INFO done", ""),
      Exited(1, "INFO reading", "ERROR invalid"),
      Exited(2, "Failed config", ""),
      Exited(1, "", ""),
      TimeoutExpired,
      Raised(LaunchErrorMessage) }

-----------------------------------------------------------------------------
(* Background thread: run_job -> run_esphome_sync *)

SetThread(t, fields) ==
    [ threads EXCEPT ![t] = fields @@ threads[t] ]

\* MarkRunning that leaves the status as it is
MarkRunning_skip(js, job_id) == js

\* main.py:233-237: choose the working directory, mark the job running
MarkRunning(js, job_id) ==
    IF job_id \in DOMAIN js
    THEN Store(js, job_id, SetKey(js[job_id], "status", "running"))
    ELSE js

WorkingDirectory(fs, args) ==
    LET config_path == args[Len(args)]
    IN  IF is_file(fs, config_path) THEN Parent(config_path) ELSE WORKSPACE

run_esphome_sync_begin(t) ==
    /\ threads[t].pc = "start"
    /\ jobs' = MarkRunning(jobs, threads[t].job_id)
    /\ threads' = SetThread(t, [ pc |-> "run",
                                 cwd |-> Some(WorkingDirectory(files, threads[t].args)) ])
    /\ UNCHANGED <<files, requests>>

\* main.py:247-253: the update after the process has exited
RecordExit(record, proc) ==
    LET r1 == SetKey(record, "logs", record.logs \o proc.stdout \o proc.stderr)
        r2 == SetKey(r1, "status",
                     IF proc.returncode = 0 THEN "success" ELSE "failed")
        r3 == SetKey(r2, "returncode", proc.returncode)
    IN  IF proc.returncode # 0
        THEN SetKey(r3, "error",
                    Some(StrOr(proc.stderr,
                         StrOr(proc.stdout,
                               "Exit code " \o ToString(proc.returncode)))))
        ELSE r3

\* main.py:256-259 and 262-265: the update after a timeout or an exception
RecordFailure(record, message) ==
    SetKey(SetKey(record, "status", "failed"), "error", Some(message))

\* RecordOutcome that leaves the record alone after a timeout
RecordOutcome_timeout_unrecorded(js, job_id, proc) ==
    IF job_id \notin DOMAIN js THEN js
    ELSE Store(js, job_id,
               CASE proc.kind = "exited"  -> RecordExit(js[job_id], proc)
                 [] proc.kind = "timeout" -> js[job_id]
                 [] OTHER                 -> RecordFailure(js[job_id], proc.message))

\* RecordOutcome that records a timeout as the exit (-1, "", "Timeout")
RecordOutcome_timeout_as_exit(js, job_id, proc) ==
    IF job_id \notin DOMAIN js THEN js
    ELSE Store(js, job_id,
               CASE proc.kind = "exited"  -> RecordExit(js[job_id], proc)
                 [] proc.kind = "timeout" ->
                        RecordExit(js[job_id], Exited(-1, "", "Timeout"))
                 [] OTHER                 -> RecordFailure(js[job_id], proc.message))

RecordOutcome(js, job_id, proc) ==
    IF job_id \notin DOMAIN js THEN js
    ELSE Store(js, job_id,
               CASE proc.kind = "exited"  -> RecordExit(js[job_id], proc)
                 [] proc.kind = "timeout" -> RecordFailure(js[job_id], TimeoutMessage)
                 [] OTHER                 -> RecordFailure(js[job_id], proc.message))

\* run_esphome_sync that calls subprocess.run a second time when the first
\* call did not end with exit code 0
run_esphome_sync_run_retry(t) ==
    /\ threads[t].pc = "run"
    /\ \E proc \in ProcessOutcomes :
          IF threads[t].runs = 0 /\ proc # Exited(0, "INFO done", "")
          THEN /\ jobs' = jobs
               /\ threads' = SetThread(t, [ runs |-> 1 ])
          ELSE /\ jobs' = RecordOutcome(jobs, threads[t].job_id, proc)
               /\ threads' = SetThread(t,
                     [ pc |-> "finally", runs |-> threads[t].runs + 1,
                       proc |-> Some(proc),
                       raised |-> IF proc.kind = "raised"
                                  THEN Some(proc.message) ELSE None ])
    /\ UNCHANGED <<files, requests>>

\* main.py:238-266: subprocess.run and the handling of its outcome
run_esphome_sync_run(t) ==
    /\ threads[t].pc = "run"
    /\ \E proc \in ProcessOutcomes :
          /\ jobs' = RecordOutcome(jobs, threads[t].job_id, proc)
          /\ threads' = SetThread(t,
                [ pc |-> "finally", runs |-> threads[t].runs + 1,
                  proc |-> Some(proc),
                  raised |-> IF proc.kind = "raised"
                             THEN Some(proc.message) ELSE None ])
    /\ UNCHANGED <<files, requests>>

\* run_job that unlinks after run_esphome_sync has returned, not in a
\* finally clause: an exception ends the thread before the unlink
run_job_no_finally(t) ==
    /\ threads[t].pc = "finally"
    /\ IF threads[t].raised # None
       THEN /\ files' = files
            /\ threads' = SetThread(t, [ pc |-> "done" ])
       ELSE \E unlinked \in BOOLEAN :
              /\ files' = IF unlinked THEN files \ {threads[t].config_path}
                                      ELSE files
              /\ threads' = SetThread(t,
                    [ pc |-> "done",
                      unlinked |-> Append(threads[t].unlinked, unlinked) ])
    /\ UNCHANGED <<jobs, requests>>

\* run_job that records a failed unlink as the error of the job
run_job_finally_records_error(t) ==
    /\ threads[t].pc = "finally"
    /\ \E unlinked \in BOOLEAN :
          /\ files' = IF unlinked THEN files \ {threads[t].config_path}
                                  ELSE files
          /\ jobs' = IF unlinked THEN jobs
                     ELSE Store(jobs, threads[t].job_id,
                                RecordFailure(jobs[threads[t].job_id],
                                              "[Errno 13] Permission denied"))
          /\ threads' = SetThread(t,
                [ pc |-> "done",
                  unlinked |-> Append(threads[t].unlinked, unlinked) ])
    /\ UNCHANGED requests

\* run_job that empties the workspace instead of unlinking its own file
run_job_finally_clean_workspace(t) ==
    /\ threads[t].pc = "finally"
    /\ \E unlinked \in BOOLEAN :
          /\ files' = IF unlinked THEN {} ELSE files
          /\ threads' = SetThread(t,
                [ pc |-> "done",
                  unlinked |-> Append(threads[t].unlinked, unlinked) ])
    /\ UNCHANGED <<jobs, requests>>

\* main.py:273-277: config_path.unlink(missing_ok=True), errors swallowed
run_job_finally(t) ==
    /\ threads[t].pc = "finally"
    /\ \E unlinked \in BOOLEAN :
          /\ files' = IF unlinked THEN files \ {threads[t].config_path}
                                  ELSE files
          /\ threads' = SetThread(t,
                [ pc |-> "done",
                  unlinked |-> Append(threads[t].unlinked, unlinked) ])
    /\ UNCHANGED <<jobs, requests>>

ThreadStep ==
    \E t \in DOMAIN threads :
        \/ run_esphome_sync_begin(t)
        \/ run_esphome_sync_run(t)
        \/ run_job_finally(t)

-----------------------------------------------------------------------------
(* Status lookup *)

NotFound == [ code |-> 404, detail |-> "Job not found" ]

\* api_get_job that answers with an empty pending record for an unknown id
api_get_job_default(job_id) ==
    IF job_id \notin DOMAIN jobs
    THEN [ code |-> 200, job |-> [ status |-> "pending" ] ]
    ELSE [ code |-> 200, job |-> jobs[job_id] ]

\* main.py:406-411
api_get_job(job_id) ==
    IF job_id \notin DOMAIN jobs THEN NotFound
    ELSE [ code |-> 200, job |-> jobs[job_id] ]

-----------------------------------------------------------------------------
(* List *)

\* the position of a job among the keys of the dict: insertion order, which
\* is the order of created_at
Rank(job_id) ==
    Cardinality({ k \in DOMAIN jobs : jobs[k].created_at <= jobs[job_id].created_at })

\* {"job_id": jid, **{k: v for k, v in data.items() if k != "logs"}}
ListEntry(job_id, data) ==
    [ k \in (DOMAIN data \ {"logs"}) \cup {"job_id"} |->
        IF k = "job_id" THEN job_id ELSE data[k] ]

\* api_list_jobs that leaves out the jobs that have finished
api_list_jobs_unfinished ==
    LET live == { j \in DOMAIN jobs : jobs[j].status \notin Terminal }
    IN  [ n \in 1..Cardinality(live) |->
            LET job_id == CHOOSE j \in live :
                    Cardinality({ k \in live :
                        jobs[k].created_at <= jobs[j].created_at }) = n
            IN  ListEntry(job_id, jobs[job_id]) ]

\* main.py:400-403
api_list_jobs ==
    [ n \in 1..Cardinality(DOMAIN jobs) |->
        LET job_id == CHOOSE j \in DOMAIN jobs : Rank(j) = n
        IN  ListEntry(job_id, jobs[job_id]) ]

-----------------------------------------------------------------------------
(* The program: unique identifiers, the four submit routes *)

Next ==
    \/ ApiSubmit /\ UNCHANGED others
    \/ ThreadStep /\ UNCHANGED others

Spec == Init /\ [][Next]_vars

TypeOK ==
    /\ DOMAIN jobs \subseteq JobIds
    /\ \A j \in DOMAIN jobs :
          jobs[j].status \in {"pending", "running", "success", "failed"}
    /\ Len(requests) <= MaxJobs
    /\ Len(threads) <= Len(requests)

-----------------------------------------------------------------------------
(* The submit route called with a subcommand that is not on the allow-list *)

ApiSubmitOther ==
    \E subcommand \in OtherCommands :
      \E body \in Bodies(subcommand), written \in WriteOutcomes :
        submit(subcommand, body, FreshId(Calls + 1), written)

NextOp == Next \/ (ApiSubmitOther /\ UNCHANGED others)

SpecOp == Init /\ [][NextOp]_vars

-----------------------------------------------------------------------------
(* uuid.uuid4() returning a value it has returned before *)

ApiSubmitRepeatedId ==
    \E subcommand \in SubmitCommands, i \in DOMAIN requests :
      \E body \in Bodies(subcommand), written \in WriteOutcomes :
        submit(subcommand, body, requests[i].job_id, written)

NextUuid == Next \/ (ApiSubmitRepeatedId /\ UNCHANGED others)

SpecUuid == Init /\ [][NextUuid]_vars

-----------------------------------------------------------------------------
(* Synchronous validate: api_validate *)

UnlinkErrorMessage == "[Errno 13] Permission denied"

\* a response of api_validate: a returned dict (code 200, valid set) or an
\* HTTP error (detail set; "" when the exception reached the framework)
ValidateResponse(code, valid, error, detail) ==
    [ code |-> code, valid |-> valid, error |-> error, detail |-> detail ]

\* api_validate that does not unlink the file after a timeout
validate_try_timeout_leaves_file(fs, config_path, proc, unlinks) ==
    LET removed == fs \ {config_path}
    IN  CASE proc.kind = "exited" /\ unlinks[1] ->
               [ files |-> removed, unlinked |-> <<TRUE>>,
                 response |->
                   IF proc.returncode # 0
                   THEN ValidateResponse(200, Some(FALSE),
                          Some(StrOr(proc.stderr, StrOr(proc.stdout,
                               "Exit code " \o ToString(proc.returncode)))), None)
                   ELSE ValidateResponse(200, Some(TRUE), None, None) ]
          [] proc.kind = "exited" /\ ~unlinks[1] ->
               [ files |-> IF unlinks[2] THEN removed ELSE fs,
                 unlinked |-> <<FALSE, unlinks[2]>>,
                 response |->
                   IF unlinks[2]
                   THEN ValidateResponse(500, None, None, Some(UnlinkErrorMessage))
                   ELSE ValidateResponse(500, None, None, Some("")) ]
          [] proc.kind = "timeout" ->
               [ files |-> fs, unlinked |-> <<>>,
                 response |->
                   ValidateResponse(408, None, None, Some("Validation timed out")) ]
          [] OTHER ->
               [ files |-> IF unlinks[1] THEN removed ELSE fs,
                 unlinked |-> <<unlinks[1]>>,
                 response |->
                   IF unlinks[1]
                   THEN ValidateResponse(500, None, None, Some(proc.message))
                   ELSE ValidateResponse(500, None, None, Some("")) ]

\* main.py:286-310: the try statement of api_validate; unlinks are the
\* outcomes of the successive calls of config_path.unlink (TRUE: removed,
\* FALSE: it raised OSError)
validate_try(fs, config_path, proc, unlinks) ==
    LET removed == fs \ {config_path}
    IN  CASE proc.kind = "exited" /\ unlinks[1] ->
               \* 296-304
               [ files |-> removed, unlinked |-> <<TRUE>>,
                 response |->
                   IF proc.returncode # 0
                   THEN ValidateResponse(200, Some(FALSE),
                          Some(StrOr(proc.stderr, StrOr(proc.stdout,
                               "Exit code " \o ToString(proc.returncode)))), None)
                   ELSE ValidateResponse(200, Some(TRUE), None, None) ]
          [] proc.kind = "exited" /\ ~unlinks[1] ->
               \* 296 raises, 308-310 unlink again
               [ files |-> IF unlinks[2] THEN removed ELSE fs,
                 unlinked |-> <<FALSE, unlinks[2]>>,
                 response |->
                   IF unlinks[2]
                   THEN ValidateResponse(500, None, None, Some(UnlinkErrorMessage))
                   ELSE ValidateResponse(500, None, None, Some("")) ]
          [] proc.kind = "timeout" ->
               \* 305-307
               [ files |-> IF unlinks[1] THEN removed ELSE fs,
                 unlinked |-> <<unlinks[1]>>,
                 response |->
                   IF unlinks[1]
                   THEN ValidateResponse(408, None, None, Some("Validation timed out"))
                   ELSE ValidateResponse(500, None, None, Some("")) ]
          [] OTHER ->
               \* 308-310
               [ files |-> IF unlinks[1] THEN removed ELSE fs,
                 unlinked |-> <<unlinks[1]>>,
                 response |->
                   IF unlinks[1]
                   THEN ValidateResponse(500, None, None, Some(proc.message))
                   ELSE ValidateResponse(500, None, None, Some("")) ]

UnlinkOutcomes == { <<TRUE, TRUE>>, <<FALSE, TRUE>>, <<FALSE, FALSE>> }

\* main.py:281-310
api_validate(job_id, written, proc, unlinks) ==
    LET w == write_temp_yaml(files, job_id, written)
        b == build_esphome_args("config", w.path, None, None, FALSE, FALSE, None)
        r == validate_try(w.files, w.path, proc, unlinks)
    IN  /\ Calls < MaxJobs
        /\ IF w.raised # None
           THEN /\ files' = w.files
                /\ validations' = Append(validations,
                      [ job_id |-> job_id, args |-> <<>>, proc |-> None,
                        unlinked |-> <<>>,
                        response |-> ValidateResponse(500, None, None, Some("")) ])
           ELSE /\ files' = r.files
                /\ validations' = Append(validations,
                      [ job_id |-> job_id, args |-> b.args, proc |-> Some(proc),
                        unlinked |-> r.unlinked, response |-> r.response ])
        /\ UNCHANGED <<jobs, requests, threads, lookup, call>>

ApiValidate ==
    \E written \in WriteOutcomes, proc \in ProcessOutcomes,
       unlinks \in UnlinkOutcomes :
        api_validate(FreshId(Calls + 1), written, proc, unlinks)

NextValidate == Next \/ ApiValidate

SpecValidate == Init /\ [][NextValidate]_vars

-----------------------------------------------------------------------------
(* Jobs submitted through /api/run and /api/clean, every started thread      *)
(* scheduled again and again, subprocess.run ending in one of                *)
(* ProcessOutcomes. The runner is the same for the four routes.              *)

FairCommands == {"run", "clean"}

ApiSubmitFair ==
    \E subcommand \in FairCommands :
      \E body \in Bodies(subcommand), written \in WriteOutcomes :
        submit(subcommand, body, FreshId(Calls + 1), written)

ThreadStepOf(t) ==
    /\ t \in DOMAIN threads
    /\ \/ run_esphome_sync_begin(t)
       \/ run_esphome_sync_run(t)
       \/ run_job_finally(t)
    /\ UNCHANGED others

NextFair ==
    \/ ApiSubmitFair /\ UNCHANGED others
    \/ \E t \in 1..MaxJobs : ThreadStepOf(t)

SpecFair ==
    /\ Init
    /\ [][NextFair]_vars
    /\ \A t \in 1..MaxJobs : WF_vars(ThreadStepOf(t))

-----------------------------------------------------------------------------
(* A status lookup next to a running job. api_get_job returns jobs[job_id],  *)
(* the dict the runner writes to, and leaves the lock on return; the         *)
(* response is encoded afterwards by iterating over that dict. The runner    *)
(* writes its fields one assignment at a time while it holds jobs_lock.      *)

\* the keys of a job dict in insertion order
KeyOrder(record) ==
    <<"type", "status", "logs", "error", "created_at">>
    \o (IF "returncode" \in DOMAIN record THEN <<"returncode">> ELSE <<>>)

\* main.py:247-265: the assignments of the terminal update, in program order
TerminalWrites(record, proc) ==
    CASE proc.kind = "exited" ->
            << <<"logs", record.logs \o proc.stdout \o proc.stderr>>,
               <<"status", IF proc.returncode = 0 THEN "success" ELSE "failed">>,
               <<"returncode", proc.returncode>> >>
            \o (IF proc.returncode # 0
                THEN << <<"error",
                          Some(StrOr(proc.stderr,
                               StrOr(proc.stdout,
                                     "Exit code " \o ToString(proc.returncode))))>> >>
                ELSE <<>>)
      [] proc.kind = "timeout" ->
            << <<"status", "failed">>, <<"error", Some(TimeoutMessage)>> >>
      [] OTHER ->
            << <<"status", "failed">>, <<"error", Some(proc.message)>> >>

\* jobs_lock is held by a runner that is inside its terminal update
LockFree == \A t \in DOMAIN threads : threads[t].pc # "record"

\* the event loop is not inside a lookup
LoopFree == IF lookup = None THEN TRUE ELSE lookup[1].pc = "done"

\* main.py:238-248: subprocess.run returns or raises, the runner takes the lock
run_esphome_sync_proc(t) ==
    /\ threads[t].pc = "run"
    /\ LockFree
    /\ \E proc \in ProcessOutcomes :
          threads' = SetThread(t,
                [ pc |-> "record", runs |-> threads[t].runs + 1,
                  proc |-> Some(proc),
                  raised |-> IF proc.kind = "raised"
                             THEN Some(proc.message) ELSE None,
                  writes |-> IF threads[t].job_id \in DOMAIN jobs
                             THEN TerminalWrites(jobs[threads[t].job_id], proc)
                             ELSE <<>> ])
    /\ UNCHANGED <<jobs, files, requests>>

\* one assignment jobs[job_id][key] = value; the lock is released after the
\* last one
run_esphome_sync_write(t) ==
    /\ threads[t].pc = "record"
    /\ LET writes == threads[t].writes
           job_id == threads[t].job_id
       IN  /\ jobs' = IF Len(writes) = 0 THEN jobs
                      ELSE Store(jobs, job_id,
                                 SetKey(jobs[job_id], writes[1][1], writes[1][2]))
           /\ threads' = SetThread(t,
                 [ pc |-> IF Len(writes) <= 1 THEN "finally" ELSE "record",
                   writes |-> IF Len(writes) = 0 THEN writes ELSE Tail(writes) ])
    /\ UNCHANGED <<files, requests>>

\* history of the lookup: the records of its job as they stand each time the
\* lock is free, and whether a terminal update wrote to it meanwhile
Observe(t) ==
    IF lookup # None /\ lookup[1].pc \in {"returned", "encode"}
          /\ threads[t].job_id = lookup[1].job_id
    THEN Some([ lookup[1] EXCEPT
                  !.snapshots = IF \A u \in DOMAIN threads' : threads'[u].pc # "record"
                                THEN @ \cup { jobs'[lookup[1].job_id] }
                                ELSE @,
                  !.overlap = @ \/ threads[t].pc = "record" ])
    ELSE lookup

ThreadStepRead ==
    \E t \in DOMAIN threads :
        /\ \/ LockFree /\ run_esphome_sync_begin(t)
           \/ run_esphome_sync_proc(t)
           \/ run_esphome_sync_write(t)
           \/ run_job_finally(t)
        /\ lookup' = Observe(t)
        /\ UNCHANGED <<validations, call>>

\* main.py:406-411: the handler; the job of the 200 answer is the dict itself
GetJob ==
    /\ lookup = None
    /\ LockFree
    /\ \E job_id \in JobIds :
          lookup' = Some(
             IF api_get_job(job_id).code = 404
             THEN [ job_id |-> job_id, pc |-> "done", pos |-> 0, size |-> 0,
                    read |-> <<>>, snapshots |-> {}, overlap |-> FALSE,
                    response |-> api_get_job(job_id) ]
             ELSE [ job_id |-> job_id, pc |-> "returned", pos |-> 0, size |-> 0,
                    read |-> <<>>, snapshots |-> { jobs[job_id] },
                    overlap |-> FALSE, response |-> NotFound ])
    /\ UNCHANGED <<jobs, files, requests, threads, validations, call>>

EncodeErrorMessage == "dictionary changed size during iteration"

\* one step of the encoder: it opens the iteration over the items of the
\* dict, then takes one item per step: RuntimeError if the number of keys has
\* changed since the iteration was opened, else the next key and its present
\* value
Encode ==
    /\ lookup # None
    /\ lookup[1].pc \in {"returned", "encode"}
    /\ LET l == lookup[1]
           d == jobs[l.job_id]
       IN  lookup' = Some(
             IF l.pc = "returned"
             THEN [ l EXCEPT !.pc = "encode", !.size = Cardinality(DOMAIN d) ]
             ELSE IF Cardinality(DOMAIN d) # l.size
             THEN [ l EXCEPT !.pc = "done",
                      !.response = [ code |-> 500, detail |-> EncodeErrorMessage ] ]
             ELSE IF l.pos = l.size
             THEN [ l EXCEPT !.pc = "done",
                      !.response = [ code |-> 200, job |-> l.read ] ]
             ELSE [ l EXCEPT !.pos = @ + 1,
                      !.read = SetKey(@, KeyOrder(d)[l.pos + 1],
                                      d[KeyOrder(d)[l.pos + 1]]) ])
    /\ UNCHANGED <<jobs, files, requests, threads, validations, call>>

NextRead ==
    \/ LoopFree /\ LockFree /\ ApiSubmit /\ UNCHANGED others
    \/ ThreadStepRead
    \/ GetJob
    \/ Encode

SpecRead == Init /\ [][NextRead]_vars

-----------------------------------------------------------------------------
(* The Argument Builder on its own: build_esphome_args applied to every      *)
(* combination of a subcommand and option values                             *)

Devices == { None, Some(""), Some("/dev/ttyUSB0") }
UploadSpeeds == { None, Some(0), Some(115200) }
Substitutions ==
    { None, Some(<<>>),
      Some(<< <<"name", "node">> >>),
      Some(<< <<"name", "node">>, <<"flag", "--no-logs">> >>),
      Some(<< <<"flag", "--no-logs">>, <<"name", "node">> >>) }

BuildInputs ==
    [ subcommand : ALLOWED_COMMANDS \cup OtherCommands,
      config_path : { ConfigPath("id1") },
      device : Devices, upload_speed : UploadSpeeds,
      only_generate : BOOLEAN, no_logs : BOOLEAN,
      substitutions : Substitutions ]

InitArgs ==
    /\ jobs = <<>>
    /\ files = {}
    /\ requests = <<>>
    /\ threads = <<>>
    /\ validations = <<>>
    /\ lookup = None
    /\ \E input \in BuildInputs : call = [ input |-> input, output |-> None ]

BuildArgs ==
    /\ call.output = None
    /\ call' = [ call EXCEPT !.output =
                  Some(build_esphome_args(call.input.subcommand,
                         call.input.config_path, call.input.device,
                         call.input.upload_speed, call.input.only_generate,
                         call.input.no_logs, call.input.substitutions)) ]
    /\ UNCHANGED <<jobs, files, requests, threads, validations, lookup>>

NextArgs == BuildArgs

SpecArgs == InitArgs /\ [][NextArgs]_vars

-----------------------------------------------------------------------------
(* Properties *)

\* the thread that was started for a request, the request a thread belongs to
ThreadsOf(job_id) == { t \in DOMAIN threads : threads[t].job_id = job_id }
RequestOf(t) ==
    CHOOSE i \in DOMAIN requests :
        requests[i].job_id = threads[t].job_id /\ requests[i].code = 200
Accepted == { i \in DOMAIN requests : requests[i].code = 200 }

StatusStep(a, b) ==
    \/ a = b
    \/ <<a, b>> \in { <<"pending", "running">>, <<"running", "success">>,
                      <<"running", "failed">> }

\* C1: the status of a job starts as pending and only moves pending ->
\* running -> success | failed, one step at a time; a record whose status is
\* success or failed is never written again.
C1_StatusMovesForward ==
    [][ /\ \A j \in DOMAIN jobs :
              /\ j \in DOMAIN jobs'
              /\ StatusStep(jobs[j].status, jobs'[j].status)
              /\ jobs[j].status \in Terminal => jobs'[j] = jobs[j]
        /\ \A j \in DOMAIN jobs' \ DOMAIN jobs : jobs'[j].status = "pending"
      ]_vars

C1_Witness ==
    \E t \in DOMAIN threads :
        /\ threads[t].pc = "done"
        /\ jobs[threads[t].job_id].status \in Terminal

\* C2 as stated: after a successful submit, a status lookup finds the job
\* with status pending or running.
C2_LookupPendingOrRunning ==
    \A i \in Accepted :
        LET r == api_get_job(requests[i].job_id)
        IN  r.code = 200 /\ r.job.status \in {"pending", "running"}

\* C2 amended: after a successful submit, a status lookup always finds the
\* job; it reports pending or running as long as the job's thread has not
\* recorded the outcome of the process, and success or failed once it has.
C2_LookupFindsJob ==
    \A i \in Accepted :
        LET r == api_get_job(requests[i].job_id)
        IN  /\ r.code = 200
            /\ r.job.type = requests[i].subcommand
            /\ \A t \in ThreadsOf(requests[i].job_id) :
                  /\ threads[t].pc = "start" => r.job.status = "pending"
                  /\ threads[t].pc = "run" => r.job.status = "running"
                  /\ threads[t].pc \in {"finally", "done"}
                        => r.job.status \in Terminal

C2_Witness ==
    \E i \in Accepted :
        /\ api_get_job(requests[i].job_id).code = 200
        /\ api_get_job(requests[i].job_id).job.status = "pending"
        /\ \E k \in Accepted :
              api_get_job(requests[k].job_id).job.status = "success"

\* C3 as stated: a job whose status is success or failed has no temporary
\* configuration file.
C3_TerminalHasNoFile ==
    \A j \in DOMAIN jobs :
        jobs[j].status \in Terminal => ConfigPath(j) \notin files

\* C3 amended: once the thread of a job has finished and its unlink did not
\* fail, the job is success or failed and its temporary configuration file
\* does not exist.
C3_FinishedHasNoFile ==
    \A t \in DOMAIN threads :
        (threads[t].pc = "done" /\ threads[t].unlinked # <<FALSE>>)
            => /\ threads[t].config_path = ConfigPath(threads[t].job_id)
               /\ threads[t].config_path \notin files
               /\ jobs[threads[t].job_id].status \in Terminal

C3_Witness ==
    \E t \in DOMAIN threads :
        /\ threads[t].pc = "done"
        /\ threads[t].unlinked = <<TRUE>>
        /\ threads[t].raised # None
        /\ jobs[threads[t].job_id].status = "failed"

\* C4: a request for a subcommand outside the allow-list ends in an error
\* (the ValueError of build_esphome_args when the file could be written),
\* has no job record and no thread, and no thread ever runs a command line
\* whose subcommand is outside the allow-list.
C4_RejectedOperation ==
    /\ \A i \in DOMAIN requests :
          requests[i].subcommand \notin ALLOWED_COMMANDS
            => /\ requests[i].code = 500
               /\ requests[i].raised \in {"ValueError", "OSError"}
               /\ requests[i].raised = "ValueError"
                    => requests[i].detail
                         = "Command not allowed: " \o requests[i].subcommand
               /\ requests[i].job_id \notin DOMAIN jobs
               /\ ThreadsOf(requests[i].job_id) = {}
    /\ \A t \in DOMAIN threads : threads[t].args[2] \in ALLOWED_COMMANDS
    /\ \A j \in DOMAIN jobs : jobs[j].type \in ALLOWED_COMMANDS

C4_Witness ==
    \E i \in DOMAIN requests :
        /\ requests[i].subcommand \notin ALLOWED_COMMANDS
        /\ requests[i].raised = "ValueError"
        /\ Len(threads) > 0

SameSubmission(t1, t2) ==
    /\ requests[RequestOf(t1)].subcommand = requests[RequestOf(t2)].subcommand
    /\ requests[RequestOf(t1)].body = requests[RequestOf(t2)].body

\* C6 as stated: two submissions with the same operation, document and
\* options run the same argument vector.
C6_IdenticalVectors ==
    \A t1, t2 \in DOMAIN threads :
        SameSubmission(t1, t2) => threads[t1].args = threads[t2].args

\* C6 amended: two submissions with the same operation, document and options
\* run argument vectors that are equal element by element except for the
\* third one, the document path, which is each job's own temporary file.
C6_IdenticalButPath ==
    \A t1, t2 \in DOMAIN threads :
        SameSubmission(t1, t2)
            => /\ Len(threads[t1].args) = Len(threads[t2].args)
               /\ \A n \in 1..Len(threads[t1].args) :
                     n # 3 => threads[t1].args[n] = threads[t2].args[n]
               /\ threads[t1].args[3] = ConfigPath(threads[t1].job_id)
               /\ threads[t2].args[3] = ConfigPath(threads[t2].job_id)

C6_Witness ==
    \E t1, t2 \in DOMAIN threads :
        /\ t1 # t2
        /\ SameSubmission(t1, t2)
        /\ Len(threads[t1].args) > 3
        /\ threads[t1].args # threads[t2].args

\* C7: a submission whose temporary file could not be written is a job that
\* status lookup finds, with status failed and the I/O message as its error.
C7_WriteFailureIsJobFailure ==
    \A i \in DOMAIN requests :
        requests[i].raised = "OSError"
            => LET r == api_get_job(requests[i].job_id)
               IN  /\ r.code = 200
                   /\ r.job.status = "failed"
                   /\ r.job.error = Some(requests[i].detail)

\* C8: a job whose process timed out is failed, from the moment the timeout
\* is handled on, with the timeout message as its error and no exit code;
\* no job whose process exited or could not be launched carries that
\* message; subprocess.run was called once for it.
C8_Timeout ==
    \A t \in DOMAIN threads :
        threads[t].proc # None
            => LET job == jobs[threads[t].job_id]
               IN  IF threads[t].proc[1].kind = "timeout"
                   THEN /\ job.status = "failed"
                        /\ job.error = Some(TimeoutMessage)
                        /\ "returncode" \notin DOMAIN job
                        /\ threads[t].runs = 1
                        /\ threads[t].raised = None
                   ELSE job.error # Some(TimeoutMessage)

C8_Witness ==
    \E t \in DOMAIN threads :
        /\ threads[t].pc = "done"
        /\ threads[t].proc # None
        /\ threads[t].proc[1].kind = "timeout"

\* C9: a job whose process exited is success exactly if the exit code is 0;
\* otherwise it is failed, the exit code is recorded and the error is the
\* stderr text, or else the stdout text, or else "Exit code <n>"; no failed
\* job has a missing or empty error.
C9_ExitCode ==
    /\ \A t \in DOMAIN threads :
          (threads[t].proc # None /\ threads[t].proc[1].kind = "exited")
            => LET job == jobs[threads[t].job_id]
                   proc == threads[t].proc[1]
               IN  /\ job.status = (IF proc.returncode = 0 THEN "success"
                                                            ELSE "failed")
                   /\ "returncode" \in DOMAIN job
                   /\ job.returncode = proc.returncode
                   /\ proc.returncode # 0 =>
                        job.error =
                          Some(IF proc.stderr # "" THEN proc.stderr
                               ELSE IF proc.stdout # "" THEN proc.stdout
                               ELSE "Exit code " \o ToString(proc.returncode))
    /\ \A j \in DOMAIN jobs :
          jobs[j].status = "failed"
            => jobs[j].error # None /\ jobs[j].error[1] # ""

C9_Witness ==
    \E t1, t2 \in DOMAIN threads :
        /\ threads[t1].proc = Some(Exited(1, "", ""))
        /\ jobs[threads[t1].job_id].error = Some("Exit code 1")
        /\ threads[t2].proc = Some(Exited(2, "Failed config", ""))
        /\ jobs[threads[t2].job_id].error = Some("Failed config")

\* C10: a submit that creates a record under an identifier that is already
\* in the job store fails and leaves the record of that identifier as it is.
C10_CreateExistingFails ==
    [][ \A j \in DOMAIN jobs :
           (Len(requests') > Len(requests)
              /\ requests'[Len(requests')].job_id = j)
             => /\ requests'[Len(requests')].code = 500
                /\ jobs'[j] = jobs[j]
      ]_vars

\* C12: every way out of run_esphome_sync (exit code 0 or not, timeout,
\* exception) leads to the unlink of run_job, which is attempted once, and
\* the step of the unlink, failed or not, leaves every job record as it is.
C12_CleanupAlwaysRuns ==
    [][ \A t \in DOMAIN threads :
           /\ (threads[t].pc = "run" /\ threads'[t].pc # "run")
                => (threads'[t].pc = "finally" /\ threads'[t].unlinked = <<>>)
           /\ (threads[t].pc = "finally" /\ threads'[t] # threads[t])
                => /\ threads'[t].pc = "done"
                   /\ Len(threads'[t].unlinked) = 1
                   /\ jobs' = jobs
      ]_vars

C12_Witness ==
    \E t1, t2 \in DOMAIN threads :
        /\ threads[t1].pc = "done"
        /\ threads[t1].unlinked = <<FALSE>>
        /\ threads[t1].raised # None
        /\ threads[t2].pc = "done"
        /\ threads[t2].unlinked = <<FALSE>>
        /\ jobs[threads[t2].job_id].status = "success"

\* C13: the list has exactly one entry for every submission that returned a
\* job id, whatever the status of the job, each entry shows the job's current
\* status, and no entry has the key "logs".
C13_ListAllWithoutLogs ==
    LET l == api_list_jobs
    IN  /\ Len(l) = Cardinality(Accepted)
        /\ \A i \in Accepted :
              Cardinality({ n \in DOMAIN l : l[n].job_id = requests[i].job_id }) = 1
        /\ \A n \in DOMAIN l :
              /\ "logs" \notin DOMAIN l[n]
              /\ l[n].status = jobs[l[n].job_id].status
              /\ l[n].type = jobs[l[n].job_id].type

C13_Witness ==
    /\ Len(api_list_jobs) = 2
    /\ api_list_jobs[1].status = "success"
    /\ jobs[api_list_jobs[1].job_id].logs # ""
    /\ api_list_jobs[2].status = "failed"

\* C17: the external process of every job is run with the directory of the
\* job's configuration file as its working directory.
C17_CwdIsConfigDir ==
    \A t \in DOMAIN threads :
        threads[t].runs > 0
            => threads[t].cwd = Some(Parent(threads[t].config_path))

\* C19: subprocess.run is called at most once by every thread, exactly once
\* by a thread that has left run_esphome_sync, and every job has exactly one
\* thread.
C19_AtMostOneInvocation ==
    /\ \A t \in DOMAIN threads :
          /\ threads[t].runs <= 1
          /\ threads[t].pc \in {"finally", "done"} => threads[t].runs = 1
    /\ \A j \in DOMAIN jobs : Cardinality(ThreadsOf(j)) = 1
    /\ Len(threads) = Cardinality(Accepted)

C19_Witness ==
    \E t \in DOMAIN threads :
        /\ threads[t].pc = "done"
        /\ threads[t].proc = Some(Raised(LaunchErrorMessage))
        /\ threads[t].runs = 1

\* C20: a step of the thread of job A leaves the record of every other job
\* and the temporary file of every other identifier as they are.
C20_RunnerFrame ==
    [][ \A t \in DOMAIN threads :
           threads'[t] # threads[t]
             => \A j \in JobIds :
                   j # threads[t].job_id
                     => /\ j \in DOMAIN jobs => jobs'[j] = jobs[j]
                        /\ (ConfigPath(j) \in files') = (ConfigPath(j) \in files)
      ]_vars

C20_Witness ==
    \E t1, t2 \in DOMAIN threads :
        /\ threads[t1].job_id # threads[t2].job_id
        /\ threads[t1].pc = "done"
        /\ threads[t1].unlinked = <<TRUE>>
        /\ threads[t2].pc = "run"
        /\ threads[t2].config_path \in files
        /\ jobs[threads[t2].job_id].status = "running"

\* C14: status lookup of any identifier that no submission has returned,
\* the identifiers drawn by validate included, is the not-found response.
C14_UnknownIdNotFound ==
    \A j \in JobIds :
        j \notin { requests[i].job_id : i \in Accepted }
            => api_get_job(j) = NotFound

C14_Witness ==
    \E n \in DOMAIN validations :
        /\ validations[n].response.valid = Some(TRUE)
        /\ api_get_job(validations[n].job_id) = NotFound
        /\ \E i \in Accepted : api_get_job(requests[i].job_id).code = 200

ExitedWith(v, zero) ==
    /\ v.proc # None
    /\ v.proc[1].kind = "exited"
    /\ (v.proc[1].returncode = 0) = zero

\* C15 as stated: validate leaves the job store alone; whenever the tool was
\* run, the response has valid = true exactly if it exited with code 0 and
\* otherwise valid = false with a non-empty error, and the temporary file is
\* gone.
C15_ValidateAsStated ==
    \A n \in DOMAIN validations :
        LET v == validations[n]
        IN  v.proc # None
              => /\ v.job_id \notin DOMAIN jobs
                 /\ IF ExitedWith(v, TRUE)
                    THEN v.response.valid = Some(TRUE)
                    ELSE /\ v.response.valid = Some(FALSE)
                         /\ v.response.error # None
                         /\ v.response.error[1] # ""
                 /\ ConfigPath(v.job_id) \notin files

\* C15 amended: validate never creates or changes a job record or a thread.
\* When no unlink raises: exit code 0 gives valid = true, another exit code
\* valid = false with a non-empty error, a timeout HTTP 408 and any other
\* exception HTTP 500 with its message, and the temporary file is gone.
\* When an unlink raises, the response is HTTP 500 whatever the tool did, and
\* the file is gone only if a second unlink (after an exit) succeeded.
C15_ValidateOutcome ==
    /\ [](\A n \in DOMAIN validations :
            LET v == validations[n]
                resp == v.response
            IN  /\ v.job_id \notin DOMAIN jobs
                /\ ThreadsOf(v.job_id) = {}
                /\ v.proc # None =>
                     /\ v.args = <<"esphome", "config", ConfigPath(v.job_id)>>
                     /\ Len(v.unlinked) >= 1
                     /\ (ConfigPath(v.job_id) \notin files)
                            = v.unlinked[Len(v.unlinked)]
                     /\ IF v.unlinked = <<TRUE>>
                        THEN /\ ExitedWith(v, TRUE) =>
                                  resp.code = 200 /\ resp.valid = Some(TRUE)
                             /\ ExitedWith(v, FALSE) =>
                                  /\ resp.code = 200 /\ resp.valid = Some(FALSE)
                                  /\ resp.error # None /\ resp.error[1] # ""
                             /\ v.proc[1].kind = "timeout" =>
                                  /\ resp.code = 408 /\ resp.valid = None
                                  /\ resp.detail = Some("Validation timed out")
                             /\ v.proc[1].kind = "raised" =>
                                  /\ resp.code = 500 /\ resp.valid = None
                                  /\ resp.detail = Some(v.proc[1].message)
                        ELSE resp.code = 500 /\ resp.valid = None)
    /\ [][ Len(validations') > Len(validations)
             => jobs' = jobs /\ threads' = threads ]_vars

C15_Witness ==
    \E n1, n2 \in DOMAIN validations :
        /\ validations[n1].proc = Some(TimeoutExpired)
        /\ validations[n1].response.code = 408
        /\ ConfigPath(validations[n1].job_id) \notin files
        /\ ExitedWith(validations[n2], TRUE)
        /\ validations[n2].unlinked = <<FALSE, TRUE>>
        /\ validations[n2].response.code = 500

\* an option value counts as supplied if it is not None, not the empty
\* string and not 0
Supplied(opt, empty) == opt # None /\ opt[1] # empty

RECURSIVE Triples(_)
Triples(items) ==
    IF Len(items) = 0 THEN <<>>
    ELSE Triples(SubSeq(items, 1, Len(items) - 1))
           \o <<"--substitution", items[Len(items)][1], items[Len(items)][2]>>

ExpectedVector(in) ==
    LET generate == in.subcommand = "compile" /\ in.only_generate
        transfer == in.subcommand \in {"upload", "run"}
        device   == transfer /\ Supplied(in.device, "")
        speed    == transfer /\ Supplied(in.upload_speed, 0)
        quiet    == in.subcommand = "run" /\ in.no_logs
    IN  <<"esphome", in.subcommand, in.config_path>>
        \o (IF generate THEN <<"--only-generate">> ELSE <<>>)
        \o (IF device THEN <<"--device", in.device[1]>> ELSE <<>>)
        \o (IF speed THEN <<"--upload-speed", ToString(in.upload_speed[1])>>
                     ELSE <<>>)
        \o (IF quiet THEN <<"--no-logs">> ELSE <<>>)
        \o (IF in.substitutions = None THEN <<>>
            ELSE Triples(in.substitutions[1]))

\* C16: for every allowed subcommand and every combination of options the
\* vector is esphome, the subcommand, the document path, then --only-generate
\* (compile only), --device and --upload-speed (upload and run only, when
\* supplied), --no-logs (run only), then one --substitution triple per
\* substitution in the order supplied; nothing else is in the vector.
C16_ArgumentVector ==
    (call # None /\ call.output # None
        /\ call.input.subcommand \in ALLOWED_COMMANDS)
      => /\ call.output[1].raised = None
         /\ call.output[1].args = ExpectedVector(call.input)

C16_Witness ==
    /\ call # None
    /\ call.output # None
    /\ call.input.subcommand = "compile"
    /\ call.input.only_generate
    /\ call.input.device = Some("/dev/ttyUSB0")
    /\ call.input.upload_speed = Some(115200)
    /\ call.input.no_logs
    /\ call.input.substitutions
         = Some(<< <<"flag", "--no-logs">>, <<"name", "node">> >>)
    /\ Len(call.output[1].args) = 10

RECURSIVE ApplyWrites(_, _)
ApplyWrites(record, writes) ==
    IF Len(writes) = 0 THEN record
    ELSE ApplyWrites(SetKey(record, writes[1][1], writes[1][2]), Tail(writes))

\* the assignments of the terminal update, applied in order, give the record
\* of the one-step update
TerminalWritesAgree ==
    \A job_id \in DOMAIN jobs, proc \in ProcessOutcomes :
        ApplyWrites(jobs[job_id], TerminalWrites(jobs[job_id], proc))
          = RecordOutcome(jobs, job_id, proc)[job_id]

\* C11: a lookup that ran while the runner of the same job made its terminal
\* update answers with a record that is the whole record of the job as it
\* stood before the update or the whole record as it stood after it.
C11_LookupPreOrPost ==
    (lookup # None /\ lookup[1].pc = "done" /\ lookup[1].overlap)
      => /\ lookup[1].response.code = 200
         /\ lookup[1].response.job \in lookup[1].snapshots

\* a 200 answer whose logs are those of the finished process and whose status
\* is still running
C11_Torn ==
    /\ lookup # None
    /\ lookup[1].pc = "done"
    /\ lookup[1].response.code = 200
    /\ lookup[1].response.job.status = "running"
    /\ lookup[1].response.job.logs # ""

\* a lookup of an existing job answered with 500
C11_EncodeError ==
    /\ lookup # None
    /\ lookup[1].pc = "done"
    /\ lookup[1].response.code = 500

\* C18: under fair scheduling of its thread, and with the process exiting,
\* being cut off by the timeout or failing to launch, every job in the
\* registry eventually has status success or failed.
C18_EventuallyTerminal ==
    \A job_id \in JobIds :
        (job_id \in DOMAIN jobs)
          ~> (job_id \in DOMAIN jobs /\ jobs[job_id].status \in Terminal)

C18_Witness ==
    \E t \in DOMAIN threads :
        /\ threads[t].pc = "done"
        /\ threads[t].proc = Some(TimeoutExpired)
        /\ jobs[threads[t].job_id].status = "failed"

====
